---------------------------- MODULE Spec2Model ----------------------------
(***************************************************************************)
(* A model of the Lens workshop front end:                                 *)
(*   - formatPicture (lens-app/utils.ts), the media URL resolver;          *)
(*   - the two profile pages of lens-app/app/profile/[handle]/page.tsx     *)
(*     (the SDK "handle" page, lines 17-155, and the "id" page, lines      *)
(*     158-304): profile fetch, publications query, mirror unwrapping and  *)
(*     the rendering of the feed.                                          *)
(*                                                                         *)
(* JavaScript values are records tagged by t: "string" (v: the sequence of *)
(* its characters), "object", "undefined", and "TypeError" for a thrown    *)
(* error.  A string is the sequence of its one-character strings, so that  *)
(* startsWith, substring and concatenation are computed, not assumed.      *)
(***************************************************************************)
EXTENDS Naturals, Sequences, FiniteSets

VARIABLES
    picture,       \* formatPicture's argument
    result,        \* formatPicture's return value (NotCalled before the call)
    variant,       \* which profile page is shown: "handle" or "id"
    loading,       \* useProfile's loading flag
    profile,       \* useProfile's data
    pubQuery,      \* the arguments of the usePublications query, once issued
    publications,  \* usePublications' data
    unwrapped,     \* Publications' local list after the mirror-unwrapping map
    screen,        \* what the page has rendered
    ethereum,      \* whether window.ethereum is set
    authorized,    \* the accounts the wallet provider exposes to the site
    connected,     \* id page: useState connected
    account,       \* id page: useState account
    check,         \* id page: the run of checkConnection
    connect,       \* id page: the run of connectWallet
    follow,        \* the run of followUser (id page) or of useFollow's execute
    isConnected,   \* handle page: useAccount's isConnected
    wallet,        \* handle page: useActiveProfile's data
    login,         \* handle page: the run of onLoginClick
    buttons,       \* the buttons and loading text the page has rendered
    page,          \* README walkthrough: "listing" (app/page.js) or "profile"
    fetch,         \* README walkthrough: the run of fetchProfiles / fetchProfile
    lookups,       \* README walkthrough: the per-profile publication lookups
    profiles       \* README walkthrough: useState profiles of the listing

fmtVars == <<picture, result>>
feedVars == <<variant, loading, profile, pubQuery, publications, unwrapped, screen>>
walletVars == <<ethereum, authorized, connected, account, check, connect, follow,
                isConnected, wallet, login, buttons>>
readmeVars == <<page, fetch, lookups, profiles>>
extVars == <<walletVars, readmeVars>>

vars == <<fmtVars, feedVars, walletVars, readmeVars>>

---------------------------------------------------------------------------
(* Bounds *)

MaxHashLen == 2
MaxPubs == 2

---------------------------------------------------------------------------
(* JavaScript values *)

Undefined == [t |-> "undefined"]
TypeError == [t |-> "TypeError"]
NotCalled == [t |-> "notCalled"]
Str(s) == [t |-> "string", v |-> s]

\* String.prototype.startsWith(p)
StartsWith(s, p) ==
    /\ Len(s) >= Len(p)
    /\ SubSeq(s, 1, Len(p)) = p

Min(a, b) == IF a <= b THEN a ELSE b

\* String.prototype.substring(start, end): both indices are clamped to the
\* length and swapped when start > end; the result holds the characters at
\* the 0-based positions start .. end-1.
Substring(s, start, end) ==
    LET a == Min(start, Len(s))
        b == Min(end, Len(s))
        lo == Min(a, b)
        hi == IF a <= b THEN b ELSE a
    IN  SubSeq(s, lo + 1, hi)

---------------------------------------------------------------------------
(* formatPicture *)

IPFS_PREFIX == <<"i","p","f","s",":","/","/">>
AR_PREFIX == <<"a","r",":","/","/">>
IPFS_GATEWAY == <<"h","t","t","p",":","/","/","l","e","n","s",".","i","n","f","u","r","a","-","i","p","f","s",".","i","o","/","i","p","f","s","/">>
ARWEAVE_GATEWAY == <<"h","t","t","p",":","/","/","a","r","w","e","a","v","e",".","n","e","t","/">>

\* picture.__typename: undefined on a string primitive, the field on an object
Typename(p) == IF p.t = "object" THEN p.typename ELSE "none"

\* formatPicture with one fault each: an off-by-one ipfs offset, the ar
\* offset at five, no __typename test, a scheme found anywhere in the url
formatPicture_ipfsOffByOne(p) ==
    IF p.t \notin {"object", "string"} THEN TypeError
    ELSE IF Typename(p) = "MediaSet" THEN
        IF p.original.t # "object" THEN TypeError
        ELSE IF p.original.url.t # "string" THEN TypeError
        ELSE LET url == p.original.url.v IN
            IF StartsWith(url, IPFS_PREFIX)
            THEN Str(IPFS_GATEWAY \o Substring(url, 6, Len(url)))
            ELSE IF StartsWith(url, AR_PREFIX)
            THEN Str(ARWEAVE_GATEWAY \o Substring(url, 4, Len(url)))
            ELSE p.original.url
    ELSE p

formatPicture_arFiveChars(p) ==
    IF p.t \notin {"object", "string"} THEN TypeError
    ELSE IF Typename(p) = "MediaSet" THEN
        IF p.original.t # "object" THEN TypeError
        ELSE IF p.original.url.t # "string" THEN TypeError
        ELSE LET url == p.original.url.v IN
            IF StartsWith(url, IPFS_PREFIX)
            THEN Str(IPFS_GATEWAY \o Substring(url, 7, Len(url)))
            ELSE IF StartsWith(url, AR_PREFIX)
            THEN Str(ARWEAVE_GATEWAY \o Substring(url, 5, Len(url)))
            ELSE p.original.url
    ELSE p

formatPicture_noTypenameCheck(p) ==
    IF p.t \notin {"object", "string"} THEN TypeError
    ELSE IF p.t = "object" /\ p.original.t = "object" THEN
        IF p.original.url.t # "string" THEN TypeError
        ELSE LET url == p.original.url.v IN
            IF StartsWith(url, IPFS_PREFIX)
            THEN Str(IPFS_GATEWAY \o Substring(url, 7, Len(url)))
            ELSE IF StartsWith(url, AR_PREFIX)
            THEN Str(ARWEAVE_GATEWAY \o Substring(url, 4, Len(url)))
            ELSE p.original.url
    ELSE p

formatPicture_prefixAnywhere(p) ==
    IF p.t \notin {"object", "string"} THEN TypeError
    ELSE IF Typename(p) = "MediaSet" THEN
        IF p.original.t # "object" THEN TypeError
        ELSE IF p.original.url.t # "string" THEN TypeError
        ELSE LET url == p.original.url.v IN
            IF StartsWith(url, IPFS_PREFIX)
            THEN Str(IPFS_GATEWAY \o Substring(url, 7, Len(url)))
            ELSE IF \E i \in 0..Len(url) : StartsWith(SubSeq(url, i + 1, Len(url)), AR_PREFIX)
            THEN Str(ARWEAVE_GATEWAY \o Substring(url, 4, Len(url)))
            ELSE p.original.url
    ELSE p

\* utils.ts: formatPicture(picture).  Reading a property of undefined, or
\* calling startsWith on undefined, throws a TypeError.
formatPicture(p) ==
    IF p.t \notin {"object", "string"} THEN TypeError
    ELSE IF Typename(p) = "MediaSet" THEN
        IF p.original.t # "object" THEN TypeError
        ELSE IF p.original.url.t # "string" THEN TypeError
        ELSE LET url == p.original.url.v IN
            IF StartsWith(url, IPFS_PREFIX)
            THEN Str(IPFS_GATEWAY \o Substring(url, 7, Len(url)))
            ELSE IF StartsWith(url, AR_PREFIX)
            THEN Str(ARWEAVE_GATEWAY \o Substring(url, 4, Len(url)))
            ELSE p.original.url
    ELSE p

---------------------------------------------------------------------------
(* The inputs of formatPicture *)

HashChars == {"Q", "m", "/"}

SeqsUpTo(S, n) == UNION {[1..k -> S] : k \in 0..n}

Hashes == SeqsUpTo(HashChars, MaxHashLen)

\* the two content-addressed schemes, an absolute URL, near misses of both
\* schemes, a scheme in the middle of the string, and no prefix at all
UrlPrefixes ==
    { IPFS_PREFIX, AR_PREFIX,
      <<"h","t","t","p","s",":","/","/">>,
      <<"i","p","f","s",":","/">>,
      <<"a","r",":","/">>,
      <<"x","a","r",":","/","/">>,
      <<"I","P","F","S",":","/","/">>,
      <<>> }

Urls == {p \o h : p \in UrlPrefixes, h \in Hashes}

Original(url, mime) == [t |-> "object", url |-> url, mimeType |-> mime]

\* a picture or media object: __typename ("none" when absent), original, uri
PictureObj(tn, orig, uri) ==
    [t |-> "object", typename |-> tn, original |-> orig, uri |-> uri]

MediaSets ==
    {PictureObj("MediaSet", Original(Str(u), "image/png"), Undefined) : u \in Urls}
    \cup {PictureObj("MediaSet", Original(Undefined, "image/png"), Undefined),
          PictureObj("MediaSet", Undefined, Undefined)}

NftImages == {PictureObj("NftImage", Undefined, Str(u)) : u \in Urls}

Untyped == {PictureObj("none", Original(Str(u), "image/png"), Undefined) : u \in Urls}

PlainStrings == {Str(u) : u \in Urls}

Pictures == MediaSets \cup NftImages \cup Untyped \cup PlainStrings

---------------------------------------------------------------------------
(* The pages' idle values, used while formatPicture alone is exercised *)

NoQuery == [t |-> "notIssued"]
Blank == [t |-> "blank"]

FeedIdle ==
    /\ variant = "handle"
    /\ loading = TRUE
    /\ profile = Undefined
    /\ pubQuery = NoQuery
    /\ publications = Undefined
    /\ unwrapped = Undefined
    /\ screen = Blank

FmtIdle ==
    /\ picture = Undefined
    /\ result = NotCalled

\* a run of an asynchronous operation that has not started
Idle == [pc |-> "idle", sent |-> 0, failed |-> FALSE]

WalletIdle ==
    /\ ethereum = FALSE
    /\ authorized = <<>>
    /\ connected = FALSE
    /\ account = ""
    /\ check = Idle
    /\ connect = Idle
    /\ follow = Idle
    /\ isConnected = FALSE
    /\ wallet = Undefined
    /\ login = Idle
    /\ buttons = Blank

ReadmeIdle ==
    /\ page = "listing"
    /\ fetch = Idle
    /\ lookups = <<>>
    /\ profiles = <<>>

ExtIdle == WalletIdle /\ ReadmeIdle

---------------------------------------------------------------------------
(* formatPicture applied to every input *)

InitFormat ==
    /\ picture \in Pictures
    /\ result = NotCalled
    /\ FeedIdle
    /\ ExtIdle

CallFormatPicture ==
    /\ result = NotCalled
    /\ result' = formatPicture(picture)
    /\ UNCHANGED <<picture, feedVars, extVars>>

NextFormat == CallFormatPicture

SpecFormat == InitFormat /\ [][NextFormat]_vars

---------------------------------------------------------------------------
(* The profile pages: values returned by the Lens hooks *)

Arr(items) == [t |-> "array", items |-> items]

Metadata(content, media) == [t |-> "object", content |-> content, media |-> media]

\* a publication: __typename, metadata, mirrorOf (undefined unless a Mirror)
Publication(tn, meta, of) ==
    [t |-> "object", typename |-> tn, metadata |-> meta, mirrorOf |-> of]

HTTPS_Q == <<"h","t","t","p","s",":","/","/","Q">>
IPFS_Q == IPFS_PREFIX \o <<"Q">>
AR_Q == AR_PREFIX \o <<"Q">>

PngHttps == PictureObj("MediaSet", Original(Str(HTTPS_Q), "image/png"), Undefined)
JpegIpfs == PictureObj("MediaSet", Original(Str(IPFS_Q), "image/jpeg"), Undefined)
PngAr == PictureObj("MediaSet", Original(Str(AR_Q), "image/png"), Undefined)
PngUntyped == PictureObj("none", Original(Str(HTTPS_Q), "image/png"), Undefined)
Mp4 == PictureObj("MediaSet", Original(Str(HTTPS_Q), "video/mp4"), Undefined)
Gif == PictureObj("MediaSet", Original(Str(HTTPS_Q), "image/gif"), Undefined)
UpperPng == PictureObj("MediaSet", Original(Str(HTTPS_Q), "IMAGE/PNG"), Undefined)
NoOriginal == PictureObj("MediaSet", Undefined, Undefined)

\* metadata.media: absent, empty, or one or two entries
MediaLists ==
    { Undefined, Arr(<<>>), Arr(<<NoOriginal>>), Arr(<<PngHttps>>), Arr(<<JpegIpfs>>),
      Arr(<<PngAr>>), Arr(<<PngUntyped>>), Arr(<<Mp4>>), Arr(<<Gif>>), Arr(<<UpperPng>>),
      Arr(<<Mp4, PngHttps>>), Arr(<<PngHttps, Mp4>>) }

Hello == <<"h","e","l","l","o">>
Gm == <<"g","m">>
Re == <<"r","e">>

Posts ==
    {Publication("Post", Metadata(Str(Hello), m), Undefined) : m \in MediaLists}
    \cup {Publication("Post", Metadata(Str(Gm), Arr(<<>>)), Undefined)}

Comments == {Publication("Comment", Metadata(Str(Gm), Arr(<<PngHttps>>)), Undefined)}

\* what a Mirror may wrap: the Lens API types mirrorOf as a Post or a Comment
Mirrorable ==
    {Publication("Post", Metadata(Str(Hello), m), Undefined) :
        m \in {Undefined, Arr(<<>>), Arr(<<JpegIpfs>>)}}
    \cup Comments

\* a Mirror carries metadata of its own beside the publication it wraps
Mirrors == {Publication("Mirror", Metadata(Str(Re), Arr(<<>>)), of) : of \in Mirrorable}

Publications == Posts \cup Comments \cup Mirrors

Profile(id, handle, bio, pic) ==
    [t |-> "object", id |-> id, handle |-> handle, bio |-> bio, picture |-> pic]

Profiles ==
    { Profile("0x01", Str(<<"a","l","i","c","e",".","l","e","n","s">>), Str(<<"h","i">>), JpegIpfs),
      Profile("0x02", Undefined, Undefined, Undefined),
      Profile("0x03", Str(<<"b","o","b",".","l","e","n","s">>), Undefined,
              PictureObj("NftImage", Undefined, Str(IPFS_Q))) }

---------------------------------------------------------------------------
(* The profile pages: unwrapping and rendering *)

\* Unwrap with one fault each: Mirrors filtered out, Mirrors left wrapped
Unwrap_dropMirrors(pubs) ==
    IF pubs.t # "array" THEN Undefined
    ELSE Arr(SelectSeq(pubs.items, LAMBDA pub : pub.typename # "Mirror"))

Unwrap_keepMirrors(pubs) ==
    IF pubs.t # "array" THEN Undefined
    ELSE pubs

\* publications?.map(publication => publication.__typename === 'Mirror'
\*     ? publication.mirrorOf : publication)
Unwrap(pubs) ==
    IF pubs.t # "array" THEN Undefined
    ELSE Arr([i \in 1..Len(pubs.items) |->
             LET pub == pubs.items[i] IN
             IF pub.typename = "Mirror" THEN pub.mirrorOf ELSE pub])

IMAGE_MIME_TYPES == {"image/jpeg", "image/png"}

\* RenderPost with one fault each: the first image entry at any index, the
\* raw original.url on both pages
RenderPost_anyEntry(pub, v) ==
    IF pub.t # "object" THEN TypeError
    ELSE IF pub.metadata.t # "object" THEN TypeError
    ELSE IF pub.metadata.media.t # "array" THEN TypeError
    ELSE LET media == pub.metadata.media.items
             shown == {i \in 1..Len(media) :
                          /\ media[i].original.t = "object"
                          /\ media[i].original.mimeType \in IMAGE_MIME_TYPES}
             first == media[CHOOSE i \in shown : \A j \in shown : i <= j]
             src == IF v = "handle" THEN first.original.url ELSE formatPicture(first)
         IN  IF shown # {} /\ src.t = "TypeError" THEN TypeError
             ELSE [t |-> "post", text |-> pub.metadata.content,
                   images |-> IF shown # {} THEN <<src>> ELSE <<>>]

RenderPost_rawUrl(pub, v) ==
    IF pub.t # "object" THEN TypeError
    ELSE IF pub.metadata.t # "object" THEN TypeError
    ELSE IF pub.metadata.media.t # "array" THEN TypeError
    ELSE LET media == pub.metadata.media.items
             first == IF Len(media) >= 1 THEN media[1] ELSE Undefined
             orig == IF first.t = "object" THEN first.original ELSE Undefined
             show == orig.t = "object" /\ orig.mimeType \in IMAGE_MIME_TYPES
         IN  [t |-> "post", text |-> pub.metadata.content,
              images |-> IF show THEN <<orig.url>> ELSE <<>>]

\* One entry of the feed (page.tsx 137-151 and 286-299): the text, and the
\* image when media[0]?.original is set and its mimeType is one of the two
\* accepted.  pub.metadata.content throws when pub or its metadata is
\* undefined; pub.metadata?.media[0] throws when media is undefined.  The
\* handle page reads original.url; the id page calls formatPicture(media[0]).
RenderPost(pub, v) ==
    IF pub.t # "object" THEN TypeError
    ELSE IF pub.metadata.t # "object" THEN TypeError
    ELSE IF pub.metadata.media.t # "array" THEN TypeError
    ELSE LET media == pub.metadata.media.items
             first == IF Len(media) >= 1 THEN media[1] ELSE Undefined
             orig == IF first.t = "object" THEN first.original ELSE Undefined
             show == orig.t = "object" /\ orig.mimeType \in IMAGE_MIME_TYPES
             src == IF v = "handle" THEN orig.url ELSE formatPicture(first)
         IN  IF show /\ src.t = "TypeError" THEN TypeError
             ELSE [t |-> "post", text |-> pub.metadata.content,
                   images |-> IF show THEN <<src>> ELSE <<>>]

\* publications?.map(...) in the returned JSX: nothing while the data is
\* undefined; an error thrown by one entry is thrown by the render
RenderFeed(unw, v) ==
    IF unw.t # "array" THEN Arr(<<>>)
    ELSE LET entries == [i \in 1..Len(unw.items) |-> RenderPost(unw.items[i], v)] IN
         IF \E i \in 1..Len(entries) : entries[i].t = "TypeError"
         THEN TypeError
         ELSE Arr(entries)

\* the profile picture: page.tsx 75-83 (original.url) and 238-248 (formatPicture)
RenderPicture(prof, v) ==
    IF prof.t = "object" /\ prof.picture.t = "object" /\ prof.picture.typename = "MediaSet"
    THEN IF v = "handle"
         THEN IF prof.picture.original.t = "object"
              THEN Arr(<<prof.picture.original.url>>)
              ELSE TypeError
         ELSE LET src == formatPicture(prof.picture) IN
              IF src.t = "TypeError" THEN TypeError ELSE Arr(<<src>>)
    ELSE Arr(<<>>)

\* Whether the page renders <Publications profile={profile} />: the handle
\* page after its loading return and under profile && (47, 86); the id page
\* after if (!profile) return null (228, 251)
ShowsPublications(v, ld, prof) ==
    IF v = "handle" THEN ~ld /\ prof.t = "object" ELSE prof.t = "object"

\* What the page component returns.  unw is the unwrapped list of the
\* Publications component, undefined while it has no data.
RenderPage(v, ld, prof, unw) ==
    IF v = "handle" /\ ld THEN [t |-> "loading"]
    ELSE IF v = "id" /\ prof.t # "object" THEN [t |-> "null"]
    ELSE LET pic == RenderPicture(prof, v)
             feed == IF ShowsPublications(v, ld, prof) THEN RenderFeed(unw, v) ELSE Arr(<<>>)
         IN  IF pic.t = "TypeError" \/ feed.t = "TypeError" THEN TypeError
             ELSE [t |-> "page",
                   picture |-> pic.items,
                   handle |-> IF prof.t = "object" THEN prof.handle ELSE Undefined,
                   bio |-> IF prof.t = "object" THEN prof.bio ELSE Undefined,
                   feed |-> feed.items]

\* usePublications({profileId: profile.id, limit}): 20 on the handle page
\* (122-125), 10 on the id page (270-273)
PublicationsQuery(v, prof) ==
    [t |-> "query", profileId |-> prof.id, limit |-> IF v = "handle" THEN 20 ELSE 10]

---------------------------------------------------------------------------
(* The profile pages: the state machine *)

PubSeqs == SeqsUpTo(Publications, MaxPubs)

InitFeed ==
    /\ variant \in {"handle", "id"}
    /\ loading = TRUE
    /\ profile = Undefined
    /\ pubQuery = NoQuery
    /\ publications = Undefined
    /\ unwrapped = Undefined
    /\ screen = RenderPage(variant, TRUE, Undefined, Undefined)
    /\ FmtIdle
    /\ ExtIdle

\* useProfile({handle}) returns: a profile, or none (unknown handle, failed
\* request); the page renders again
ProfileReturned ==
    /\ loading
    /\ \E prof \in Profiles \cup {Undefined} :
        /\ profile' = prof
        /\ loading' = FALSE
        /\ screen' = RenderPage(variant, FALSE, prof, unwrapped)
    /\ UNCHANGED <<variant, pubQuery, publications, unwrapped, fmtVars, extVars>>

\* The Publications component is mounted by the page's render and its
\* usePublications hook issues the query
MountPublications ==
    /\ ShowsPublications(variant, loading, profile)
    /\ pubQuery = NoQuery
    /\ pubQuery' = PublicationsQuery(variant, profile)
    /\ unwrapped' = Unwrap(publications)
    /\ screen' = RenderPage(variant, loading, profile, unwrapped')
    /\ UNCHANGED <<variant, loading, profile, publications, fmtVars, extVars>>

\* usePublications returns its data; Publications unwraps and renders it
PublicationsReturned ==
    /\ pubQuery # NoQuery
    /\ publications = Undefined
    /\ \E items \in PubSeqs :
        /\ publications' = Arr(items)
        /\ unwrapped' = Unwrap(publications')
        /\ screen' = RenderPage(variant, loading, profile, unwrapped')
    /\ UNCHANGED <<variant, loading, profile, pubQuery, fmtVars, extVars>>

NextFeed ==
    \/ ProfileReturned
    \/ MountPublications
    \/ PublicationsReturned

SpecFeed == InitFeed /\ [][NextFeed]_vars

---------------------------------------------------------------------------
(* Wallet: the buttons, and the runs of the asynchronous operations *)

Accounts == {"0xA", "0xB"}

\* what eth_requestAccounts returns once the user approves: never empty
AccountLists == {<<"0xA">>, <<"0xB", "0xA">>}

\* the settlement of an awaited promise
Fulfilled(v) == [ok |-> TRUE, value |-> v]
Rejected == [ok |-> FALSE, value |-> <<>>]

\* useActiveProfile's data after a login with address a
OwnedProfile(a) == [t |-> "object", id |-> "0x09", ownedBy |-> a]

\* RenderButtons with one fault: Follow shown without a wallet connection
RenderButtons_followUnconnected(v, ld, prof, wal, isConn, conn) ==
    IF v = "handle"
    THEN [t |-> "buttons",
          loadingText |-> ld,
          signIn |-> ~ld /\ wal.t # "object",
          signOut |-> ~ld /\ wal.t = "object" /\ prof.t = "object",
          follow |-> ~ld /\ wal.t = "object" /\ prof.t = "object",
          connectWallet |-> FALSE]
    ELSE [t |-> "buttons",
          loadingText |-> FALSE,
          signIn |-> FALSE,
          signOut |-> FALSE,
          follow |-> prof.t = "object" /\ conn,
          connectWallet |-> prof.t = "object" /\ ~conn]

\* The buttons a page returns.  Handle page (page.tsx 47-74, 109-116): the
\* loading text alone while loading; Sign In under !wallet; Sign Out under
\* wallet && profile; Follow under wallet && profile && isConnected.  Id page
\* (228-259): nothing without a profile; Connect Wallet under !connected and
\* Follow under connected.
RenderButtons(v, ld, prof, wal, isConn, conn) ==
    IF v = "handle"
    THEN [t |-> "buttons",
          loadingText |-> ld,
          signIn |-> ~ld /\ wal.t # "object",
          signOut |-> ~ld /\ wal.t = "object" /\ prof.t = "object",
          follow |-> ~ld /\ wal.t = "object" /\ prof.t = "object" /\ isConn,
          connectWallet |-> FALSE]
    ELSE [t |-> "buttons",
          loadingText |-> FALSE,
          signIn |-> FALSE,
          signOut |-> FALSE,
          follow |-> prof.t = "object" /\ conn,
          connectWallet |-> prof.t = "object" /\ ~conn]

\* a run that is neither waiting for a promise nor holding a settled one
Over(run) == run.pc \in {"idle", "returned", "resolved", "rejected"}

InitWallet ==
    /\ variant \in {"handle", "id"}
    /\ loading = TRUE
    /\ profile = Undefined
    /\ pubQuery = NoQuery
    /\ publications = Undefined
    /\ unwrapped = Undefined
    /\ screen = RenderPage(variant, TRUE, Undefined, Undefined)
    /\ ethereum \in BOOLEAN
    /\ authorized \in (IF ethereum THEN {<<>>} \cup AccountLists ELSE {<<>>})
    /\ connected = FALSE
    /\ account = ""
    /\ check = Idle
    /\ connect = Idle
    /\ follow = Idle
    \* autoConnect (layout.tsx 17) and the stored session: the handle page may
    \* start with the wallet connected and with an active profile
    /\ isConnected \in (IF variant = "handle" /\ authorized # <<>> THEN BOOLEAN ELSE {FALSE})
    /\ wallet \in (IF variant = "handle" THEN {Undefined, OwnedProfile("0xA")} ELSE {Undefined})
    /\ login = Idle
    /\ buttons = RenderButtons(variant, TRUE, Undefined, wallet, isConnected, FALSE)
    /\ FmtIdle
    /\ ReadmeIdle

\* useProfile({handle}) returns and the page renders again
UseProfileReturns ==
    /\ loading
    /\ \E prof \in Profiles \cup {Undefined} :
        /\ profile' = prof
        /\ loading' = FALSE
        /\ screen' = RenderPage(variant, FALSE, prof, unwrapped)
        /\ buttons' = RenderButtons(variant, FALSE, prof, wallet, isConnected, connected)
    /\ UNCHANGED <<variant, pubQuery, publications, unwrapped, fmtVars, readmeVars,
                   ethereum, authorized, connected, account, check, connect, follow,
                   isConnected, wallet, login>>

---------------------------------------------------------------------------
(* Wallet on the id page: checkConnection, connectWallet, followUser *)

\* what an id page operation leaves alone beside its own run
idFrame == <<feedVars, fmtVars, readmeVars, ethereum, isConnected, wallet, login>>

\* useEffect(() => { checkConnection() }, [handle]): returns at once without
\* window.ethereum, else calls provider.listAccounts() and awaits it
CheckConnection ==
    /\ variant = "id"
    /\ check.pc = "idle"
    /\ check' = IF ethereum
                THEN [pc |-> "awaiting", sent |-> 1, failed |-> FALSE, res |-> Rejected]
                ELSE [pc |-> "returned", sent |-> 0, failed |-> FALSE, res |-> Rejected]
    /\ UNCHANGED <<idFrame, authorized, connected, account, connect, follow, buttons>>

\* the provider answers the account listing with the accounts it exposes at
\* that moment, or the request fails
ListAccountsSettles ==
    /\ check.pc = "awaiting"
    /\ \E r \in {Fulfilled(authorized), Rejected} :
        check' = [check EXCEPT !.pc = "settled", !.res = r, !.failed = ~r.ok]
    /\ UNCHANGED <<idFrame, authorized, connected, account, connect, follow, buttons>>

\* checkConnection after its await (page.tsx 188-192): setConnected(true)
\* for a non-empty list, setConnected(false) for an empty one; nothing
\* catches a failed listing, so the promise of checkConnection rejects
CheckConnectionResumes ==
    /\ check.pc = "settled"
    /\ IF check.res.ok
       THEN /\ connected' = (Len(check.res.value) > 0)
            /\ check' = [check EXCEPT !.pc = "resolved"]
       ELSE /\ connected' = connected
            /\ check' = [check EXCEPT !.pc = "rejected"]
    /\ buttons' = RenderButtons(variant, loading, profile, wallet, isConnected, connected')
    /\ UNCHANGED <<idFrame, authorized, account, connect, follow>>

\* onClick={connectWallet} (page.tsx 195-199): returns at once without
\* window.ethereum, else requests eth_requestAccounts and awaits it.  closure
\* is the account of the render the handler belongs to.
ConnectWallet ==
    /\ variant = "id"
    /\ buttons.connectWallet
    /\ Over(connect)
    /\ connect' = IF ethereum
                  THEN [pc |-> "awaiting", sent |-> 1, failed |-> FALSE, res |-> Rejected,
                        closure |-> account]
                  ELSE [pc |-> "returned", sent |-> 0, failed |-> FALSE, res |-> Rejected,
                        closure |-> account]
    /\ UNCHANGED <<idFrame, authorized, connected, account, check, follow, buttons>>

\* the user approves the request (the provider exposes the accounts from then
\* on) or declines it
RequestAccountsSettles ==
    /\ connect.pc = "awaiting"
    /\ \/ \E accs \in (IF authorized # <<>> THEN {authorized} ELSE AccountLists) :
            /\ authorized' = accs
            /\ connect' = [connect EXCEPT !.pc = "settled", !.res = Fulfilled(accs)]
       \/ /\ authorized' = authorized
          /\ connect' = [connect EXCEPT !.pc = "settled", !.res = Rejected, !.failed = TRUE]
    /\ UNCHANGED <<idFrame, connected, account, check, follow, buttons>>

\* connectWallet after its await (page.tsx 200-203): accounts[0] is an
\* expression statement without effect, setAccount(account) stores the
\* account the handler closed over, setConnected(true); nothing catches a
\* declined request, so the promise of connectWallet rejects
ConnectWalletResumes ==
    /\ connect.pc = "settled"
    /\ IF connect.res.ok
       THEN /\ account' = connect.closure
            /\ connected' = TRUE
            /\ connect' = [connect EXCEPT !.pc = "resolved"]
       ELSE /\ account' = account
            /\ connected' = connected
            /\ connect' = [connect EXCEPT !.pc = "rejected"]
    /\ buttons' = RenderButtons(variant, loading, profile, wallet, isConnected, connected')
    /\ UNCHANGED <<idFrame, authorized, check, follow>>

\* onClick={followUser} (page.tsx 211-220): with a profile, builds the
\* contract on getSigner() and, inside try, awaits contract.follow(...)
FollowUser ==
    /\ variant = "id"
    /\ buttons.follow
    /\ Over(follow)
    /\ profile.t = "object"
    /\ follow' = [pc |-> "awaitingFollow", sent |-> 1, failed |-> FALSE, caught |-> FALSE]
    /\ UNCHANGED <<idFrame, authorized, connected, account, check, connect, buttons>>

\* FollowSettles with one fault: the await is outside the try block
FollowSettles_uncaught ==
    /\ variant = "id"
    /\ follow.pc = "awaitingFollow"
    /\ \/ follow' = [follow EXCEPT !.pc = "awaitingReceipt", !.sent = 2]
       \/ follow' = [follow EXCEPT !.pc = "rejected", !.failed = TRUE]
    /\ UNCHANGED <<idFrame, authorized, connected, account, check, connect, buttons>>

\* contract.follow settles (page.tsx 220-224): on success followUser awaits
\* tx.wait(); a failure is caught and logged, and followUser's promise resolves
FollowSettles ==
    /\ variant = "id"
    /\ follow.pc = "awaitingFollow"
    /\ \/ follow' = [follow EXCEPT !.pc = "awaitingReceipt", !.sent = 2]
       \/ follow' = [follow EXCEPT !.pc = "resolved", !.failed = TRUE, !.caught = TRUE]
    /\ UNCHANGED <<idFrame, authorized, connected, account, check, connect, buttons>>

\* tx.wait() settles (page.tsx 221-225): success is logged; a failure is
\* caught and logged
ReceiptSettles ==
    /\ variant = "id"
    /\ follow.pc = "awaitingReceipt"
    /\ \/ follow' = [follow EXCEPT !.pc = "resolved"]
       \/ follow' = [follow EXCEPT !.pc = "resolved", !.failed = TRUE, !.caught = TRUE]
    /\ UNCHANGED <<idFrame, authorized, connected, account, check, connect, buttons>>

NextIdWallet ==
    \/ CheckConnection
    \/ ListAccountsSettles
    \/ CheckConnectionResumes
    \/ ConnectWallet
    \/ RequestAccountsSettles
    \/ ConnectWalletResumes
    \/ FollowUser
    \/ FollowSettles
    \/ ReceiptSettles

---------------------------------------------------------------------------
(* Wallet on the handle page: onLoginClick, logout, follow *)

\* what a handle page operation leaves alone
handleFrame == <<feedVars, fmtVars, readmeVars, ethereum, connected, account, check, connect>>

Ev(e, a) == [ev |-> e, addr |-> a]

\* connectAsync() resolves with the connector it used; onLoginClick tests it
\* with instanceof InjectedConnector
ConnectorKinds == {"injected", "other"}

HandleButtons(wal, isConn) ==
    RenderButtons(variant, loading, profile, wal, isConn, connected)

\* OnLoginClick with one fault: connects without disconnecting first
OnLoginClick_noDisconnect ==
    /\ variant = "handle"
    /\ buttons.signIn
    /\ Over(login)
    /\ login' = [pc |-> "connecting", sent |-> 1, failed |-> FALSE,
                 wasConnected |-> isConnected, connector |-> "none",
                 log |-> <<Ev("connect.start", "")>>]
    /\ UNCHANGED <<handleFrame, authorized, follow, isConnected, wallet, buttons>>

\* onClick={onLoginClick} (page.tsx 34-38): awaits disconnectAsync() when
\* isConnected, else goes on to await connectAsync()
OnLoginClick ==
    /\ variant = "handle"
    /\ buttons.signIn
    /\ Over(login)
    /\ login' = IF isConnected
                THEN [pc |-> "disconnecting", sent |-> 1, failed |-> FALSE,
                      wasConnected |-> TRUE, connector |-> "none",
                      log |-> <<Ev("disconnect.start", "")>>]
                ELSE [pc |-> "connecting", sent |-> 1, failed |-> FALSE,
                      wasConnected |-> FALSE, connector |-> "none",
                      log |-> <<Ev("connect.start", "")>>]
    /\ UNCHANGED <<handleFrame, authorized, follow, isConnected, wallet, buttons>>

\* disconnectAsync() settles (page.tsx 36-38): on success the run goes on to
\* connectAsync(); nothing catches a failure
DisconnectSettles ==
    /\ login.pc = "disconnecting"
    /\ \/ /\ isConnected' = FALSE
          /\ login' = [login EXCEPT !.pc = "connecting", !.sent = 2,
                         !.log = @ \o <<Ev("disconnect.done", ""), Ev("connect.start", "")>>]
       \/ /\ isConnected' = isConnected
          /\ login' = [login EXCEPT !.pc = "rejected", !.failed = TRUE]
    /\ buttons' = HandleButtons(wallet, isConnected')
    /\ UNCHANGED <<handleFrame, authorized, follow, wallet>>

\* connectAsync() settles (page.tsx 38-40): on success the wallet is
\* connected with an account, and for an InjectedConnector the run goes on to
\* await connector.getWalletClient(); nothing catches a failure
ConnectSettles ==
    /\ login.pc = "connecting"
    /\ \/ /\ ethereum
          /\ \E a \in Accounts, kind \in ConnectorKinds :
              /\ isConnected' = TRUE
              /\ authorized' = <<a>>
              /\ login' = IF kind = "injected"
                          THEN [login EXCEPT !.pc = "gettingClient", !.sent = @ + 1,
                                   !.connector = kind,
                                   !.log = @ \o <<Ev("connect.done", a), Ev("getWalletClient", "")>>]
                          ELSE [login EXCEPT !.pc = "resolved", !.connector = kind,
                                   !.log = @ \o <<Ev("connect.done", a)>>]
       \/ /\ isConnected' = isConnected
          /\ authorized' = authorized
          /\ login' = [login EXCEPT !.pc = "rejected", !.failed = TRUE]
    /\ buttons' = HandleButtons(wallet, isConnected')
    /\ UNCHANGED <<handleFrame, follow, wallet>>

\* getWalletClient() settles (page.tsx 40-43): on success the run calls
\* login({address: walletClient.account.address}) and awaits it
WalletClientSettles ==
    /\ login.pc = "gettingClient"
    /\ \/ /\ authorized # <<>>
          /\ login' = [login EXCEPT !.pc = "loggingIn", !.sent = @ + 1,
                         !.log = @ \o <<Ev("login", authorized[1])>>]
       \/ login' = [login EXCEPT !.pc = "rejected", !.failed = TRUE]
    /\ UNCHANGED <<handleFrame, authorized, follow, isConnected, wallet, buttons>>

\* login settles (page.tsx 41-44): the active profile is the one the address
\* owns, if it owns one; nothing catches a failure
LoginSettles ==
    /\ login.pc = "loggingIn"
    /\ \/ /\ wallet' \in {wallet, OwnedProfile(login.log[Len(login.log)].addr)}
          /\ login' = [login EXCEPT !.pc = "resolved"]
       \/ /\ wallet' = wallet
          /\ login' = [login EXCEPT !.pc = "rejected", !.failed = TRUE]
    /\ buttons' = HandleButtons(wallet', isConnected)
    /\ UNCHANGED <<handleFrame, authorized, follow, isConnected>>

\* onClick={logout} (page.tsx 67-72)
Logout ==
    /\ variant = "handle"
    /\ buttons.signOut
    /\ wallet' = Undefined
    /\ buttons' = HandleButtons(wallet', isConnected)
    /\ UNCHANGED <<handleFrame, authorized, follow, isConnected, login>>

\* the wallet drops the connection (wagmi's useAccount follows the provider)
WalletDisconnects ==
    /\ variant = "handle"
    /\ isConnected
    /\ isConnected' = FALSE
    /\ buttons' = HandleButtons(wallet, isConnected')
    /\ UNCHANGED <<handleFrame, authorized, follow, wallet, login>>

\* onClick={follow} (page.tsx 102-115): useFollow's execute with the active
\* profile as follower and the fetched profile as followee
ExecuteFollow ==
    /\ variant = "handle"
    /\ buttons.follow
    /\ Over(follow)
    /\ follow' = [pc |-> "executing", sent |-> 1, failed |-> FALSE, caught |-> FALSE,
                  follower |-> wallet, followee |-> profile]
    /\ UNCHANGED <<handleFrame, authorized, isConnected, wallet, login, buttons>>

\* execute settles; useFollow reports a failure in its error field
FollowExecuted ==
    /\ follow.pc = "executing"
    /\ \E f \in BOOLEAN : follow' = [follow EXCEPT !.pc = "resolved", !.failed = f]
    /\ UNCHANGED <<handleFrame, authorized, isConnected, wallet, login, buttons>>

NextHandleWallet ==
    \/ OnLoginClick
    \/ DisconnectSettles
    \/ ConnectSettles
    \/ WalletClientSettles
    \/ LoginSettles
    \/ Logout
    \/ WalletDisconnects
    \/ ExecuteFollow
    \/ FollowExecuted

NextWallet ==
    \/ UseProfileReturns
    \/ NextIdWallet
    \/ NextHandleWallet

SpecWallet == InitWallet /\ [][NextWallet]_vars

---------------------------------------------------------------------------
(* The README's listing page (app/page.js) and profile page, which query
   the API with client.query(...).toPromise() inside try/catch *)

MaxListed == 3

\* items of the exploreProfiles response
ListedSeqs == SeqsUpTo(Profiles, MaxListed)

\* publications.items[0] of a lookup with limit 1: undefined for no items
FirstItems ==
    {Undefined, Publication("Post", Metadata(Str(Gm), Arr(<<>>)), Undefined)}

\* the picture rewrite both README functions carry inline (README.md
\* 160-166, 329-335): under picture && picture.original &&
\* picture.original.url, an ipfs:// url is replaced by the gateway url
RewritePicture(pic) ==
    IF pic.t # "object" THEN pic
    ELSE IF pic.original.t # "object" THEN pic
    ELSE IF pic.original.url.t # "string" THEN pic
    ELSE IF pic.original.url.v = <<>> THEN pic
    ELSE LET url == pic.original.url.v IN
        IF StartsWith(url, IPFS_PREFIX)
        THEN [pic EXCEPT !.original.url = Str(IPFS_GATEWAY \o Substring(url, 7, Len(url)))]
        ELSE pic

\* the profile a lookup's callback returns (README.md 159-168)
Listed(prof, pub) ==
    [t |-> "object", id |-> prof.id, handle |-> prof.handle, bio |-> prof.bio,
     picture |-> RewritePicture(prof.picture), publication |-> pub]

Pending == [pc |-> "pending", value |-> Undefined]

AllFulfilled(ls) == \A i \in DOMAIN ls : ls[i].pc = "fulfilled"
SomeRejected(ls) == \E i \in DOMAIN ls : ls[i].pc = "rejected"

readmeFrame == <<fmtVars, walletVars, variant, loading, pubQuery, unwrapped, screen>>

InitReadme ==
    /\ page \in {"listing", "profile"}
    /\ fetch = Idle
    /\ lookups = <<>>
    /\ profiles = <<>>
    /\ profile = Undefined
    /\ publications = (IF page = "profile" THEN Arr(<<>>) ELSE Undefined)
    /\ variant = "handle"
    /\ loading = TRUE
    /\ pubQuery = NoQuery
    /\ unwrapped = Undefined
    /\ screen = Blank
    /\ FmtIdle
    /\ WalletIdle

\* useEffect -> fetchProfiles() (README.md 151-156): the exploreProfiles
\* query is sent and awaited
FetchProfiles ==
    /\ page = "listing"
    /\ fetch.pc = "idle"
    /\ fetch' = [pc |-> "exploring", sent |-> 1, failed |-> FALSE, items |-> <<>>,
                 order |-> <<>>]
    /\ UNCHANGED <<readmeFrame, page, lookups, profiles, profile, publications>>

\* exploreProfiles settles (README.md 156-158, 171): with a response, map
\* calls the callback for every item at once, each sending its lookup, and
\* fetchProfiles awaits Promise.all; a failed query leaves data undefined,
\* reading it throws, and the catch block logs
ExploreSettles ==
    /\ fetch.pc = "exploring"
    /\ \/ \E items \in ListedSeqs :
            /\ fetch' = [fetch EXCEPT !.pc = "joining", !.sent = 1 + Len(items),
                                      !.items = items]
            /\ lookups' = [i \in 1..Len(items) |-> Pending]
       \/ /\ fetch' = [fetch EXCEPT !.pc = "caught", !.failed = TRUE]
          /\ lookups' = lookups
    /\ UNCHANGED <<readmeFrame, page, profiles, profile, publications>>

\* one lookup settles (README.md 158-168), whatever fetchProfiles is doing
\* by then: with a response the callback attaches items[0], rewrites the
\* picture and returns the profile; a failed lookup leaves data undefined,
\* reading it throws and the callback's promise rejects
LookupSettles ==
    /\ \E i \in DOMAIN lookups :
        /\ lookups[i].pc = "pending"
        /\ \/ \E pub \in FirstItems :
                lookups' = [lookups EXCEPT
                               ![i] = [pc |-> "fulfilled",
                                       value |-> Listed(fetch.items[i], pub)]]
           \/ lookups' = [lookups EXCEPT ![i] = [pc |-> "rejected", value |-> Undefined]]
        /\ fetch' = [fetch EXCEPT !.order = Append(@, i)]
    /\ UNCHANGED <<readmeFrame, page, profiles, profile, publications>>

\* JoinResolves with one fault: the profiles are stored in the order in which
\* their lookups settled
JoinResolves_completionOrder ==
    /\ fetch.pc = "joining"
    /\ AllFulfilled(lookups)
    /\ profiles' = [i \in 1..Len(lookups) |-> lookups[fetch.order[i]].value]
    /\ fetch' = [fetch EXCEPT !.pc = "resolved"]
    /\ UNCHANGED <<readmeFrame, page, lookups, profile, publications>>

\* Promise.all fulfils once every callback has returned (README.md 157,
\* 169-170): its array is in the order of the items, and the one
\* setProfiles(profileData) stores it
JoinResolves ==
    /\ fetch.pc = "joining"
    /\ AllFulfilled(lookups)
    /\ profiles' = [i \in 1..Len(lookups) |-> lookups[i].value]
    /\ fetch' = [fetch EXCEPT !.pc = "resolved"]
    /\ UNCHANGED <<readmeFrame, page, lookups, profile, publications>>

\* JoinRejects with one fault: the profiles whose lookups succeeded so far
\* are stored, as after Promise.allSettled
JoinRejects_partial ==
    /\ fetch.pc = "joining"
    /\ SomeRejected(lookups)
    /\ profiles' = SelectSeq([i \in 1..Len(lookups) |-> lookups[i].value],
                             LAMBDA v : v.t = "object")
    /\ fetch' = [fetch EXCEPT !.pc = "caught", !.failed = TRUE]
    /\ UNCHANGED <<readmeFrame, page, lookups, profile, publications>>

\* Promise.all rejects as soon as one callback has thrown (README.md 157,
\* 171-173): the catch block logs, setProfiles is skipped, the lookups still
\* in flight are left to settle
JoinRejects ==
    /\ fetch.pc = "joining"
    /\ SomeRejected(lookups)
    /\ profiles' = profiles
    /\ fetch' = [fetch EXCEPT !.pc = "caught", !.failed = TRUE]
    /\ UNCHANGED <<readmeFrame, page, lookups, profile, publications>>

\* useEffect -> fetchProfile() (README.md 306-309, 323-326): the getProfile
\* query is sent and awaited
FetchProfile ==
    /\ page = "profile"
    /\ fetch.pc = "idle"
    /\ fetch' = [pc |-> "gettingProfile", sent |-> 1, failed |-> FALSE]
    /\ UNCHANGED <<readmeFrame, page, lookups, profiles, profile, publications>>

\* getProfile settles (README.md 326-338): a profile has its picture
\* rewritten and is stored by setProfile, then the publications query is
\* sent; for no such profile (data.profile null) reading its picture throws;
\* a failed query leaves data undefined and reading it throws
GetProfileSettles ==
    /\ fetch.pc = "gettingProfile"
    /\ \/ \E prof \in Profiles :
            /\ profile' = [prof EXCEPT !.picture = RewritePicture(@)]
            /\ fetch' = [fetch EXCEPT !.pc = "gettingPublications", !.sent = 2]
       \/ /\ profile' = profile
          /\ fetch' = [fetch EXCEPT !.pc = "caught"]
       \/ /\ profile' = profile
          /\ fetch' = [fetch EXCEPT !.pc = "caught", !.failed = TRUE]
    /\ UNCHANGED <<readmeFrame, page, lookups, profiles, publications>>

\* the publications query settles (README.md 338-342): setPublications
\* stores the items; a failed query leaves data undefined, reading it throws
\* and the catch block logs, the profile staying as setProfile stored it
GetPublicationsSettles ==
    /\ fetch.pc = "gettingPublications"
    /\ \/ \E items \in PubSeqs :
            /\ publications' = Arr(items)
            /\ fetch' = [fetch EXCEPT !.pc = "resolved"]
       \/ /\ publications' = publications
          /\ fetch' = [fetch EXCEPT !.pc = "caught", !.failed = TRUE]
    /\ UNCHANGED <<readmeFrame, page, lookups, profiles, profile>>

NextReadme ==
    \/ FetchProfiles
    \/ ExploreSettles
    \/ LookupSettles
    \/ JoinResolves
    \/ JoinRejects
    \/ FetchProfile
    \/ GetProfileSettles
    \/ GetPublicationsSettles

SpecReadme == InitReadme /\ [][NextReadme]_vars

---------------------------------------------------------------------------
(* Properties of formatPicture, stated of SpecFormat *)

Called == result # NotCalled

\* s holds the characters of p at its first Len(p) positions
BeginsWith(s, p) ==
    /\ Len(p) <= Len(s)
    /\ \A i \in 1..Len(p) : s[i] = p[i]

\* the picture is a MediaSet whose original.url is a string
MediaSetWithUrl(p) ==
    /\ p.t = "object"
    /\ p.typename = "MediaSet"
    /\ p.original.t = "object"
    /\ p.original.url.t = "string"

\* C1: for a MediaSet picture whose original.url is "ipfs://" followed by h,
\* formatPicture returns exactly "http://lens.infura-ipfs.io/ipfs/" followed
\* by h.
C1_IpfsRewritten ==
    (Called /\ MediaSetWithUrl(picture)) =>
        \A h \in Hashes :
            picture.original.url.v = IPFS_PREFIX \o h
                => result = Str(IPFS_GATEWAY \o h)

C1_Witness ==
    /\ Called
    /\ MediaSetWithUrl(picture)
    /\ picture.original.url.v = IPFS_PREFIX \o <<"Q", "m">>
    /\ result = Str(IPFS_GATEWAY \o <<"Q", "m">>)

\* C2 as stated: for a MediaSet picture whose original.url is "ar://"
\* followed by h, formatPicture returns "http://arweave.net/" followed by h
\* without h's first character.
C2_ArFirstCharDropped ==
    (Called /\ MediaSetWithUrl(picture)) =>
        \A h \in Hashes :
            picture.original.url.v = AR_PREFIX \o h
                => result = Str(ARWEAVE_GATEWAY \o (IF h = <<>> THEN <<>> ELSE Tail(h)))

\* C2 as amended: for a MediaSet picture whose original.url is "ar://"
\* followed by h, formatPicture returns "http://arweave.net/" followed by
\* "/" and then all of h: only four of the prefix's five characters are
\* removed, so its last "/" stays in front of the whole hash.
C2_ArSlashKept ==
    (Called /\ MediaSetWithUrl(picture)) =>
        \A h \in Hashes :
            picture.original.url.v = AR_PREFIX \o h
                => result = Str(ARWEAVE_GATEWAY \o <<"/">> \o h)

C2_Witness ==
    /\ Called
    /\ MediaSetWithUrl(picture)
    /\ picture.original.url.v = AR_PREFIX \o <<"Q", "m">>
    /\ result = Str(ARWEAVE_GATEWAY \o <<"/", "Q", "m">>)

\* C3: for an input whose __typename is not "MediaSet" (an NftImage, an
\* object without __typename, a plain string), formatPicture returns the
\* input itself, whatever its url, uri or characters are.
C3_NonMediaSetUnchanged ==
    (Called /\ picture.t \in {"object", "string"} /\ Typename(picture) # "MediaSet")
        => result = picture

\* an object without __typename that carries an ipfs:// original.url
C3_Witness ==
    /\ Called
    /\ picture.t = "object"
    /\ picture.typename = "none"
    /\ picture.original.t = "object"
    /\ picture.original.url = Str(IPFS_PREFIX \o <<"Q">>)
    /\ result = picture

\* C4: for a MediaSet picture whose original.url starts with neither
\* "ipfs://" nor "ar://", formatPicture returns original.url as given.
C4_OtherUrlUnchanged ==
    (Called /\ MediaSetWithUrl(picture)) =>
        LET url == picture.original.url.v IN
            (~BeginsWith(url, IPFS_PREFIX) /\ ~BeginsWith(url, AR_PREFIX))
                => result = Str(url)

\* a url that holds "ar://" after its first character
C4_Witness ==
    /\ Called
    /\ MediaSetWithUrl(picture)
    /\ picture.original.url.v = <<"x","a","r",":","/","/","Q">>
    /\ result = picture.original.url

---------------------------------------------------------------------------
(* Properties of the profile pages, stated of SpecFeed *)

\* the page has rendered a feed from returned publications
FeedShown ==
    /\ publications.t = "array"
    /\ unwrapped.t = "array"
    /\ screen.t = "page"

\* the publication entry i of the feed is derived from
Source(pub) == IF pub.typename = "Mirror" THEN pub.mirrorOf ELSE pub

\* media[0] of the publication exists, has an original, and the original's
\* mimeType is "image/jpeg" or "image/png"
FirstMediaIsImage(pub) ==
    LET media == pub.metadata.media.items IN
    /\ Len(media) >= 1
    /\ media[1].original.t = "object"
    /\ media[1].original.mimeType \in {"image/jpeg", "image/png"}

DropFirst(s, n) == SubSeq(s, n + 1, Len(s))

\* C5: the unwrapped sequence has the length of the returned sequence, and
\* its element i is element i's mirrorOf when element i is a Mirror and
\* element i itself otherwise.
C5_UnwrapOneToOne ==
    publications.t = "array" =>
        /\ unwrapped.t = "array"
        /\ Len(unwrapped.items) = Len(publications.items)
        /\ \A i \in 1..Len(publications.items) :
            unwrapped.items[i] =
                (IF publications.items[i].typename = "Mirror"
                 THEN publications.items[i].mirrorOf
                 ELSE publications.items[i])

\* a Mirror followed by a Post
C5_Witness ==
    /\ publications.t = "array"
    /\ Len(publications.items) = 2
    /\ publications.items[1].typename = "Mirror"
    /\ publications.items[2].typename = "Post"
    /\ unwrapped.t = "array"
    /\ unwrapped.items = <<publications.items[1].mirrorOf, publications.items[2]>>

C7_ImageIffFirstMedia ==
    FeedShown =>
        /\ Len(screen.feed) = Len(unwrapped.items)
        /\ \A i \in 1..Len(screen.feed) :
            Len(screen.feed[i].images) =
                (IF FirstMediaIsImage(unwrapped.items[i]) THEN 1 ELSE 0)

\* a post whose image is at media[1] only, shown without an image, beside a
\* post whose media[0] is an image, shown with one
C7_Witness ==
    /\ FeedShown
    /\ Len(screen.feed) = 2
    /\ unwrapped.items[1].metadata.media = Arr(<<Mp4, PngHttps>>)
    /\ screen.feed[1].images = <<>>
    /\ unwrapped.items[2].metadata.media = Arr(<<PngHttps, Mp4>>)
    /\ Len(screen.feed[2].images) = 1

\* C8 as stated: on both pages, a displayed post whose media[0] is an image
\* with original.url X has exactly one image, whose source is X.
C8_ImageSourceIsUrl ==
    FeedShown =>
        \A i \in 1..Len(screen.feed) :
            FirstMediaIsImage(unwrapped.items[i]) =>
                screen.feed[i].images =
                    <<unwrapped.items[i].metadata.media.items[1].original.url>>

\* what the id page shows for a media entry with original.url X
FormattedSource(entry) ==
    LET x == entry.original.url.v IN
    IF entry.typename # "MediaSet" THEN entry
    ELSE IF BeginsWith(x, IPFS_PREFIX) THEN Str(IPFS_GATEWAY \o DropFirst(x, 7))
    ELSE IF BeginsWith(x, AR_PREFIX) THEN Str(ARWEAVE_GATEWAY \o <<"/">> \o DropFirst(x, 5))
    ELSE Str(x)

\* C8 as amended: a displayed post whose media[0] is an image with
\* original.url X has exactly one image.  On the handle page its source is
\* X.  On the id page its source is formatPicture(media[0]): X when the entry
\* is a MediaSet and X starts with neither "ipfs://" nor "ar://", the IPFS
\* gateway URL of the rest when X starts with "ipfs://", "http://arweave.net/"
\* followed by "/" and the rest when X starts with "ar://", and the entry
\* itself when its __typename is not "MediaSet".
C8_ImageSource ==
    FeedShown =>
        \A i \in 1..Len(screen.feed) :
            FirstMediaIsImage(unwrapped.items[i]) =>
                LET entry == unwrapped.items[i].metadata.media.items[1] IN
                screen.feed[i].images =
                    <<IF variant = "handle" THEN entry.original.url
                      ELSE FormattedSource(entry)>>

\* the id page showing an ipfs:// image through the gateway
C8_Witness ==
    /\ FeedShown
    /\ variant = "id"
    /\ Len(screen.feed) >= 1
    /\ unwrapped.items[1].metadata.media = Arr(<<JpegIpfs>>)
    /\ screen.feed[1].images = <<Str(IPFS_GATEWAY \o <<"Q">>)>>

\* C9: on the handle page, the publications query is issued only once the
\* profile fetch has returned a profile, with that profile's id and limit
\* 20; and once the publications are returned the feed shows one entry per
\* publication, whose text is the content of the Post or, for a Mirror, of
\* the Post it wraps.
C9_EndToEnd ==
    variant = "handle" =>
        /\ pubQuery # NoQuery =>
            /\ ~loading
            /\ profile.t = "object"
            /\ pubQuery.profileId = profile.id
            /\ pubQuery.limit = 20
        /\ publications.t = "array" =>
            /\ screen.t = "page"
            /\ Len(screen.feed) = Len(publications.items)
            /\ \A i \in 1..Len(publications.items) :
                screen.feed[i].text = Source(publications.items[i]).metadata.content

\* C10: rendering never raises an error: not for a profile without picture,
\* handle or bio, and not for a publication whose metadata has no media
\* list, an empty media list, or a first media entry without original.
C10_MissingFieldsTolerated ==
    screen.t # "TypeError"

---------------------------------------------------------------------------
(* Properties of the wallet operations, stated of SpecWallet *)

Runs == {check, connect, follow, login}

\* C11 as stated: no operation's promise rejects.
C11_AllFailuresSwallowed ==
    \A run \in Runs : run.pc # "rejected"

\* the step in which a run meets the failure of a request
FailsNow(run, next) == ~run.failed /\ next.failed

C11_Step ==
    \* followUser catches: its promise resolves, the failure marked caught
    /\ follow'.pc # "rejected"
    /\ (variant = "id" /\ follow'.failed) => (follow'.pc = "resolved" /\ follow'.caught)
    \* the other three catch nothing: a run that met a failure ends rejected
    /\ (check'.failed /\ Over(check')) => check'.pc = "rejected"
    /\ (connect'.failed /\ Over(connect')) => connect'.pc = "rejected"
    /\ (login'.failed /\ Over(login')) => login'.pc = "rejected"
    \* nothing is retried: a run that met a failure sends nothing more
    /\ (check.failed /\ check'.failed) => check'.sent = check.sent
    /\ (connect.failed /\ connect'.failed) => connect'.sent = connect.sent
    /\ (follow.failed /\ follow'.failed) => follow'.sent = follow.sent
    /\ (login.failed /\ login'.failed) => login'.sent = login.sent
    \* the failure, and the run's end after it, leave connected and account
    /\ (\/ FailsNow(check, check') \/ FailsNow(connect, connect')
        \/ FailsNow(follow, follow') \/ FailsNow(login, login')
        \/ (check.pc # "rejected" /\ check'.pc = "rejected")
        \/ (connect.pc # "rejected" /\ connect'.pc = "rejected"))
            => (connected' = connected /\ account' = account)

\* C11 as amended: only followUser catches.  A failure of contract.follow or
\* of the receipt wait is caught inside followUser, whose promise resolves.
\* A failed account listing in checkConnection, a declined request in
\* connectWallet and a failed disconnect, connect, wallet client read or
\* login in onLoginClick are not caught: the operation's promise rejects.  In
\* every one of them nothing is retried and connected and account stay as
\* they were.
C11_OnlyFollowCatches == [][C11_Step]_vars

\* a rejected checkConnection, then a follow whose failure was caught
C11_Witness ==
    /\ check.pc = "rejected"
    /\ follow.pc = "resolved"
    /\ follow.failed
    /\ follow.caught
    /\ connected
    /\ account = ""

\* C14: a connectWallet that resumes with the accounts returned leaves
\* account = accounts[0] and connected = TRUE; a connectWallet that returns
\* for want of window.ethereum changes neither.
C14_AddressCaptured ==
    [][/\ (connect.pc = "settled" /\ connect.res.ok /\ connect'.pc = "resolved")
            => (account' = connect.res.value[1] /\ connected')
       /\ (connect.pc # "returned" /\ connect'.pc = "returned")
            => (account' = account /\ connected' = connected)]_vars

\* the events of the current run of onLoginClick
LogIdx(e) == {i \in 1..Len(login.log) : login.log[i].ev = e}

\* C15: in a run of onLoginClick, with the wallet connected at the click the
\* disconnect is over before connect starts; connect is over before the
\* wallet client is read; login is called at most once, after connect is
\* over, with the address the connect obtained; and it is not called when
\* the connector is not an InjectedConnector.
C15_LoginOrder ==
    (variant = "handle" /\ login.pc # "idle") =>
        /\ login.wasConnected =>
            \A i \in LogIdx("connect.start") :
                \E j \in LogIdx("disconnect.done") : j < i
        /\ \A i \in LogIdx("getWalletClient") :
                \E j \in LogIdx("connect.done") : j < i
        /\ Cardinality(LogIdx("login")) <= 1
        /\ \A i \in LogIdx("login") :
                \E j \in LogIdx("connect.done") :
                    j < i /\ login.log[j].addr = login.log[i].addr
        /\ login.connector = "other" =>
                (LogIdx("login") = {} /\ LogIdx("getWalletClient") = {})

\* a whole run that began with the wallet connected and reached login
C15_Witness ==
    /\ variant = "handle"
    /\ login.pc = "resolved"
    /\ login.wasConnected
    /\ LogIdx("disconnect.done") # {}
    /\ LogIdx("login") # {}
    /\ wallet.t = "object"

\* C16: once a connectWallet has resolved and connected is TRUE, no step
\* sets connected back to FALSE.
C16_ConnectedStays ==
    [][(connect.pc = "resolved" /\ connected) => connected']_vars

\* C17: on the handle page, while loading only the loading text is shown;
\* once loaded, Sign In is shown exactly when there is no active profile;
\* Sign Out only with an active profile and a fetched profile; never both;
\* Follow only with an active profile, a fetched profile and isConnected; and
\* a follow in progress was started by an active profile.
C17_ButtonsMatchSession ==
    variant = "handle" =>
        /\ loading => (buttons.loadingText /\ ~buttons.signIn /\ ~buttons.signOut /\ ~buttons.follow)
        /\ ~loading => (~buttons.loadingText /\ (buttons.signIn <=> wallet.t # "object"))
        /\ buttons.signOut => (wallet.t = "object" /\ profile.t = "object")
        /\ ~(buttons.signIn /\ buttons.signOut)
        /\ buttons.follow => (wallet.t = "object" /\ profile.t = "object" /\ isConnected)
        /\ follow.pc = "executing" => follow.follower.t = "object"

\* Follow on screen and clicked
C17_Witness ==
    /\ variant = "handle"
    /\ buttons.follow
    /\ buttons.signOut
    /\ ~buttons.signIn
    /\ follow.pc = "executing"

---------------------------------------------------------------------------
(* Properties of the README's pages, stated of SpecReadme *)

\* C12 as stated: a failed query leaves the view state empty; on the listing
\* page profiles stays the empty list, on the profile page profile stays
\* undefined and publications the empty list.
C12_FailureLeavesEmpty ==
    fetch.failed =>
        /\ page = "listing" => profiles = <<>>
        /\ page = "profile" => (profile = Undefined /\ publications = Arr(<<>>))

\* C12 as amended: a failed query is caught (the run ends in the catch
\* block).  On the listing page, after a failed exploreProfiles query or a
\* failed lookup, profiles stays the empty list.  On the profile page, after
\* a failed profile query, profile stays undefined and publications the
\* empty list; after a failed publications query, publications stays the
\* empty list while profile keeps the profile that was stored before the
\* publications were asked for.
C12_FailureCaught ==
    fetch.failed =>
        /\ fetch.pc = "caught"
        /\ page = "listing" => profiles = <<>>
        /\ (page = "profile" /\ fetch.sent = 1) =>
                (profile = Undefined /\ publications = Arr(<<>>))
        /\ (page = "profile" /\ fetch.sent = 2) =>
                (profile.t = "object" /\ publications = Arr(<<>>))

\* the publications query failed after the profile was stored
C12_Witness ==
    /\ page = "profile"
    /\ fetch.pc = "caught"
    /\ fetch.failed
    /\ fetch.sent = 2
    /\ profile.t = "object"
    /\ publications = Arr(<<>>)

\* C13 as stated: every lookup that completes updates the state on its own,
\* its profile becoming visible then.
C13_UpdatePerLookup ==
    [][\A i \in DOMAIN lookups :
          (lookups[i].pc = "pending" /\ i \in DOMAIN lookups' /\ lookups'[i].pc = "fulfilled")
              => (profiles' # profiles
                  /\ \E k \in DOMAIN profiles' : profiles'[k] = lookups'[i].value)]_vars

\* C13 as amended: one lookup per listed profile is issued, all at once and
\* without a bound, and the lookups settle in any order; the state is
\* updated once, when all of them have succeeded, and the profiles then
\* shown are in the order of the API's items whatever order the lookups
\* settled in.
C13_OneUpdateInApiOrder ==
    /\ (page = "listing" /\ fetch.pc \in {"joining", "resolved"}) =>
            (Len(lookups) = Len(fetch.items) /\ fetch.sent = 1 + Len(fetch.items))
    /\ (page = "listing" /\ fetch.pc # "resolved") => profiles = <<>>
    /\ (page = "listing" /\ fetch.pc = "resolved") =>
            /\ AllFulfilled(lookups)
            /\ Len(profiles) = Len(fetch.items)
            /\ \A i \in DOMAIN profiles :
                /\ profiles[i].id = fetch.items[i].id
                /\ profiles[i] = lookups[i].value

\* three lookups in flight together, settled last item first, then shown
C13_Witness ==
    /\ page = "listing"
    /\ fetch.pc = "resolved"
    /\ Len(profiles) = 3
    /\ fetch.order = <<3, 2, 1>>
    /\ profiles[1].id # profiles[3].id

=============================================================================
